---- MODULE Spec2Model ----
(***************************************************************************)
(* KML viewer (src/src/App.tsx): the App component's state (kmlData,       *)
(* geoJson, summary, details), its handlers handleFileUpload / onload,     *)
(* showSummary, showDetails, the helper calculateDistance and the effect   *)
(* of MapUpdater that computes the bounding envelope for map.fitBounds.    *)
(*                                                                         *)
(* Encoding of JavaScript values.                                          *)
(*   component  [t, v]      t = "num": the finite number v                 *)
(*                          t = "nan": NaN, t = "inf": Infinity            *)
(*                          t = "str": a value whose typeof is not         *)
(*                                     "number" (a string)                 *)
(*   coord      [null, el]  null = TRUE: the slot holds null/undefined;    *)
(*                          otherwise the array el of components           *)
(*   geometry   [null, type, coordinates]; coordinates is always a list of *)
(*              lists of coords: a Point's pair is coordinates[1][1], a    *)
(*              LineString's array is coordinates[1], a MultiLineString's  *)
(*              (or Polygon's) array of arrays is coordinates itself       *)
(*   nullable state  [null, val]                                           *)
(* Lengths are kept in millimetres (R in km times an angle in microradian) *)
(* and toFixed(2) yields hundredths of a kilometre.                        *)
(***************************************************************************)
EXTENDS Integers, Sequences, FiniteSets, TLC

VARIABLES kmlData, geoJson, summary, details, reading, alerted, effect, fitted

vars == <<kmlData, geoJson, summary, details, reading, alerted, effect, fitted>>

(* ------------------------------ bounds -------------------------------- *)

MaxFeatures == 2
MaxPairs == 3
MaxReading == 1

(* ------------------------- JavaScript values -------------------------- *)

Num(n) == [t |-> "num", v |-> n]
NaN == [t |-> "nan", v |-> 0]
Infinity == [t |-> "inf", v |-> 0]
Text == [t |-> "str", v |-> 0]
Undefined == [t |-> "undef", v |-> 0]

\* typeof c === "number"
IsNumber(c) == c.t \in {"num", "nan", "inf"}

\* Number.isFinite(c)
IsFinite(c) == c.t = "num"

Coord(el) == [null |-> FALSE, el |-> el]
NullCoord == [null |-> TRUE, el |-> <<>>]

\* a[i] of a JavaScript array of components: undefined past the end
At(el, i) == IF i <= Len(el) THEN el[i] ELSE Undefined

Null == [null |-> TRUE, val |-> <<>>]
Some(v) == [null |-> FALSE, val |-> v]

Min(a, b) == IF a <= b THEN a ELSE b
Max(a, b) == IF a >= b THEN a ELSE b

(* --------------------------- calculateDistance ------------------------ *)

R == 6371

\* c = 2 * atan2(sqrt(a), sqrt(1 - a)) in microradians, with
\* a = sin^2(dLat/2) + cos(lat1) * cos(lat2) * sin^2(dLon/2), tabulated for
\* lat1, lat2 in 0..2 degrees and |dLon| in 0..2 degrees:
\* CentralAngle[lat1 + 1][lat2 + 1][|dLon| + 1]
CentralAngle ==
  << << <<0, 17453, 34907>>, <<17453, 24682, 39025>>, <<34907, 39025, 49360>> >>,
     << <<17453, 24682, 39025>>, <<0, 17451, 34901>>, <<17453, 24678, 39016>> >>,
     << <<34907, 39025, 49360>>, <<17453, 24678, 39016>>, <<0, 17443, 34885>> >> >>

Abs(n) == IF n < 0 THEN -n ELSE n

\* R * c; Math.sin and Math.cos of NaN or Infinity are NaN, and NaN propagates
calculateDistance(lat1, lon1, lat2, lon2) ==
  IF IsFinite(lat1) /\ IsFinite(lon1) /\ IsFinite(lat2) /\ IsFinite(lon2)
  THEN Num(R * CentralAngle[lat1.v + 1][lat2.v + 1][Abs(lon2.v - lon1.v) + 1])
  ELSE NaN

\* a + b of two numbers that are finite or NaN
Add(a, b) == IF IsFinite(a) /\ IsFinite(b) THEN Num(a.v + b.v) ELSE NaN

\* length.toFixed(2): the decimal string, as hundredths of a kilometre
\* (10000 mm each, rounded half up), or "NaN"
toFixed2(x) == IF IsFinite(x) THEN Num((x.v + 5000) \div 10000) ELSE NaN

(* ------------------------------ features ------------------------------ *)

Geometry(type, coordinates) ==
  [null |-> FALSE, type |-> type, coordinates |-> coordinates]
NullGeometry == [null |-> TRUE, type |-> "", coordinates |-> <<>>]

\* properties.name is "" when the feature carries no name
Feature(geometry, name) == [geometry |-> geometry, properties |-> [name |-> name]]

\* array.flat(1): the sub-arrays concatenated in order
RECURSIVE Flat1(_)
Flat1(lines) ==
  IF lines = <<>> THEN <<>> ELSE Head(lines) \o Flat1(Tail(lines))

(* ----------------------------- showSummary ---------------------------- *)

ElementCount == [k \in {"Point", "LineString", "Polygon", "MultiLineString"} |-> 0]

\* the body of the forEach callback of showSummary:
\* elementCount[type] = (elementCount[type] || 0) + 1
countFeature(elementCount, feature) ==
  IF ~feature.geometry.null /\ feature.geometry.type # ""
  THEN LET type == feature.geometry.type
           old == IF type \in DOMAIN elementCount THEN elementCount[type] ELSE 0
       IN  [k \in DOMAIN elementCount \cup {type} |->
              IF k = type THEN old + 1 ELSE elementCount[k]]
  ELSE elementCount

RECURSIVE countFeatures(_, _, _)
countFeatures(features, i, elementCount) ==
  IF i > Len(features) THEN elementCount
  ELSE countFeatures(features, i + 1, countFeature(elementCount, features[i]))

(* ----------------------------- showDetails ---------------------------- *)

\* the negation of the `continue` condition of the segment loop
segmentCounted(coord1, coord2) ==
  ~( \/ coord1.null
     \/ coord2.null
     \/ Len(coord1.el) < 2
     \/ Len(coord2.el) < 2
     \/ ~IsNumber(coord1.el[1])
     \/ ~IsNumber(coord1.el[2])
     \/ ~IsNumber(coord2.el[1])
     \/ ~IsNumber(coord2.el[2]) )

\* one iteration of the for loop: length after looking at segment i
segmentStep(coordinates, i, length) ==
  LET coord1 == coordinates[i]
      coord2 == coordinates[i + 1]
  IN  IF segmentCounted(coord1, coord2)
      THEN Add(length, calculateDistance(coord1.el[2], coord1.el[1],
                                         coord2.el[2], coord2.el[1]))
      ELSE length

\* the loop with `break` in place of `continue`: it stops at the first
\* skipped segment
RECURSIVE lineLengthBreak(_, _, _)
lineLengthBreak(coordinates, i, length) ==
  IF i > Len(coordinates) - 1 THEN length
  ELSE IF ~segmentCounted(coordinates[i], coordinates[i + 1]) THEN length
  ELSE lineLengthBreak(coordinates, i + 1, segmentStep(coordinates, i, length))

\* for (let i = 0; i < coordinates.length - 1; i++), with i counted from 1
RECURSIVE lineLength(_, _, _)
lineLength(coordinates, i, length) ==
  IF i > Len(coordinates) - 1 THEN length
  ELSE lineLength(coordinates, i + 1, segmentStep(coordinates, i, length))

\* a MultiLineString read like a LineString: only its first sub-line
lineCoordinatesFirst(geometry) ==
  IF geometry.coordinates = <<>> THEN <<>> ELSE geometry.coordinates[1]

\* the coordinates the loop runs over
lineCoordinates(geometry) ==
  IF geometry.type = "LineString"
  THEN geometry.coordinates[1]
  ELSE Flat1(geometry.coordinates)

\* the degenerate-line test off by one: coordinates.length < 1
pushesDetailOnePair(feature) ==
  /\ ~feature.geometry.null
  /\ feature.geometry.type \in {"LineString", "MultiLineString"}
  /\ Len(lineCoordinates(feature.geometry)) >= 1

\* whether the forEach callback of showDetails reaches detailedData.push
pushesDetail(feature) ==
  /\ ~feature.geometry.null
  /\ feature.geometry.type \in {"LineString", "MultiLineString"}
  /\ Len(lineCoordinates(feature.geometry)) >= 2

detailItem(feature) ==
  [type   |-> feature.geometry.type,
   length |-> toFixed2(lineLength(lineCoordinates(feature.geometry), 1, Num(0))),
   name   |-> IF feature.properties.name # "" THEN feature.properties.name
              ELSE "Unnamed"]

\* the forEach callback of showDetails: what it appends to detailedData
detailOf(feature) ==
  IF pushesDetail(feature) THEN <<detailItem(feature)>> ELSE <<>>

RECURSIVE detailFeatures(_, _, _)
detailFeatures(features, i, detailedData) ==
  IF i > Len(features) THEN detailedData
  ELSE detailFeatures(features, i + 1, detailedData \o detailOf(features[i]))

(* ------------------------- MapUpdater's effect ------------------------ *)

\* new L.LatLngBounds([]): no corner set
EmptyBounds ==
  [empty |-> TRUE, south |-> Num(0), west |-> Num(0), north |-> Num(0), east |-> Num(0)]

\* Math.min / Math.max of two numbers that are finite or Infinity
MinC(a, b) ==
  IF a.t = "inf" THEN b ELSE IF b.t = "inf" THEN a ELSE Num(Min(a.v, b.v))
MaxC(a, b) ==
  IF a.t = "inf" \/ b.t = "inf" THEN Infinity ELSE Num(Max(a.v, b.v))

\* bounds.extend([lat, lon]) on corners that are already numbers
extend(bounds, lat, lon) ==
  IF bounds.empty
  THEN [empty |-> FALSE, south |-> lat, west |-> lon, north |-> lat, east |-> lon]
  ELSE [empty |-> FALSE,
        south |-> MinC(bounds.south, lat), west |-> MinC(bounds.west, lon),
        north |-> MaxC(bounds.north, lat), east |-> MaxC(bounds.east, lon)]

\* the accumulator of the effect: the two locals and whether a statement threw
StartFold == [threw |-> FALSE, hasValidBounds |-> FALSE, bounds |-> EmptyBounds]

\* const [lon, lat] = coord; if (typeof lat === "number" && typeof lon ===
\* "number") { bounds.extend([lat, lon]); hasValidBounds = true; }
\* Destructuring null or undefined throws a TypeError, and L.latLng throws
\* "Invalid LatLng object" when a component is NaN.
foldCoord(acc, coord) ==
  IF acc.threw THEN acc
  ELSE IF coord.null THEN [acc EXCEPT !.threw = TRUE]
  ELSE LET lon == At(coord.el, 1)
           lat == At(coord.el, 2)
       IN  IF IsNumber(lat) /\ IsNumber(lon)
           THEN IF lat.t = "nan" \/ lon.t = "nan"
                THEN [acc EXCEPT !.threw = TRUE]
                ELSE [acc EXCEPT !.bounds = extend(acc.bounds, lat, lon),
                                 !.hasValidBounds = TRUE]
           ELSE acc

\* (coordinates as number[][]).forEach((coord) => ...)
RECURSIVE foldLine(_, _, _)
foldLine(acc, line, i) ==
  IF i > Len(line) THEN acc
  ELSE foldLine(foldCoord(acc, line[i]), line, i + 1)

\* (coordinates as number[][][]).forEach((line) => line.forEach(...))
RECURSIVE foldLines(_, _, _)
foldLines(acc, lines, i) ==
  IF i > Len(lines) THEN acc
  ELSE foldLines(foldLine(acc, lines[i], 1), lines, i + 1)

\* the callback of geoJson.features.forEach in the effect; a geometry that is
\* not null always carries its coordinates array
foldFeature(acc, feature) ==
  IF acc.threw \/ feature.geometry.null THEN acc
  ELSE LET geometry == feature.geometry
       IN  IF geometry.type = "Point"
           THEN foldCoord(acc, geometry.coordinates[1][1])
           ELSE IF geometry.type = "LineString"
           THEN foldLine(acc, geometry.coordinates[1], 1)
           ELSE IF geometry.type = "MultiLineString"
           THEN foldLines(acc, geometry.coordinates, 1)
           ELSE acc

RECURSIVE foldFeatures(_, _, _)
foldFeatures(acc, features, i) ==
  IF i > Len(features) THEN acc
  ELSE foldFeatures(foldFeature(acc, features[i]), features, i + 1)

\* bounds.isValid(): both corners are set
isValid(bounds) == ~bounds.empty

\* the effect of MapUpdater for one value of geoJson: how it ends and the
\* bounds it hands to map.fitBounds
effectOutcome(gj) ==
  IF ~gj.null /\ Len(gj.val.features) > 0
  THEN LET acc == foldFeatures(StartFold, gj.val.features, 1)
       IN  IF acc.threw THEN [effect |-> "threw", fitted |-> EmptyBounds]
           ELSE IF acc.hasValidBounds /\ isValid(acc.bounds)
           THEN [effect |-> "fitted", fitted |-> acc.bounds]
           ELSE [effect |-> "skipped", fitted |-> EmptyBounds]
  ELSE [effect |-> "skipped", fitted |-> EmptyBounds]

(* ------------------------------- inputs ------------------------------- *)

A0 == Coord(<<Num(0), Num(0)>>)
A1 == Coord(<<Num(0), Num(1)>>)
A2 == Coord(<<Num(0), Num(2)>>)
B1 == Coord(<<Num(2), Num(1)>>)

\* the coordinate slots lines are built from: missing, truncated, with a
\* non-number, with NaN, with Infinity, and two finite pairs
Pairs ==
  { NullCoord, Coord(<<Num(0)>>), Coord(<<Text, Num(0)>>), Coord(<<NaN, Num(0)>>),
    Coord(<<Num(0), Infinity>>), A0, B1 }

SeqsUpTo(S, n) == UNION { [1..k -> S] : k \in 0..n }

\* the sub-arrays of line cut after the positions in cuts, from position i on
RECURSIVE SplitAt(_, _, _)
SplitAt(line, cuts, i) ==
  IF i > Len(line) THEN <<>>
  ELSE LET later == { c \in cuts : c >= i }
           e == IF later = {} THEN Len(line)
                ELSE CHOOSE c \in later : \A d \in later : c <= d
       IN  <<SubSeq(line, i, e)>> \o SplitAt(line, cuts, e + 1)

\* every LineString of at most maxPairs slots and every MultiLineString whose
\* non-empty sub-lines hold at most maxPairs slots together
LineFeatures(maxPairs) ==
  { Feature(Geometry("LineString", <<line>>), "") : line \in SeqsUpTo(Pairs, maxPairs) }
  \cup
  UNION { { Feature(Geometry("MultiLineString", SplitAt(line, cuts, 1)), "") :
              cuts \in SUBSET (1..(Len(line) - 1)) } :
          line \in SeqsUpTo(Pairs, maxPairs) }

PointFeature(lon, lat, name) == Feature(Geometry("Point", << <<Coord(<<lon, lat>>)>> >>), name)

\* the features of the files that are picked
UploadFeatures ==
  { Feature(NullGeometry, "Note"),
    PointFeature(Num(20), Num(10), "Depot"),
    Feature(Geometry("MultiPolygon", <<>>), ""),
    Feature(Geometry("LineString", << <<A0, A1>> >>), "Trail"),
    Feature(Geometry("LineString", << <<Coord(<<NaN, Num(0)>>), A0, A1>> >>), ""),
    Feature(Geometry("MultiLineString", << <<A0, A1>>, <<A1, A2>> >>), "Ridge") }

\* the features collections of several features are built from
CoreFeatures ==
  UploadFeatures \cup
  { PointFeature(Num(30), Num(-5), ""),
    PointFeature(Infinity, Num(0), ""),
    PointFeature(Text, Num(1), ""),
    Feature(Geometry("Polygon", << <<A0, A1, B1, A0>> >>), "Field"),
    Feature(Geometry("LineString", << <<B1>> >>), ""),
    Feature(Geometry("MultiLineString", << <<A0, NullCoord>>, <<>>, <<B1, A1>> >>), "") }

\* the collections the builders are applied to: one line feature of at most
\* maxPairs slots, or at most maxFeatures of the features above
BuilderInputs(maxFeatures, maxPairs) ==
  { <<f>> : f \in LineFeatures(maxPairs) } \cup SeqsUpTo(CoreFeatures, maxFeatures)

\* a picked file, by what reading and parsing it gives: an empty text, a text
\* DOMParser throws on, a document toGeoJSON.kml throws on, or a document
\* that converts to the collection `features`
File(kind, features) == [kind |-> kind, features |-> features]
Files ==
  { File("empty", <<>>), File("parseThrows", <<>>), File("kmlThrows", <<>>) }
  \cup { File("kml", c) : c \in SeqsUpTo(UploadFeatures, 1) }

(* ------------------------------- actions ------------------------------ *)

Init ==
  /\ kmlData = Null
  /\ geoJson = Null
  /\ summary = Null
  /\ details = Null
  /\ reading = {}
  /\ alerted = FALSE
  /\ effect = "pending"
  /\ fitted = EmptyBounds

\* handleFileUpload: a file was picked, reader.readAsText(file) starts
\* (without a file the handler returns at once and nothing changes)
handleFileUpload ==
  \E file \in Files :
    /\ Cardinality(reading) < MaxReading
    /\ file \notin reading
    /\ reading' = reading \cup {file}
    /\ UNCHANGED <<kmlData, geoJson, summary, details, alerted, effect, fitted>>

\* onload with setKmlData(kmlDoc) moved before the conversion: a document
\* toGeoJSON.kml throws on is stored without its collection
onloadStateEarlySet(file, old) ==
  IF file.kind = "empty" THEN old
  ELSE IF file.kind = "parseThrows" THEN [old EXCEPT !.alerted = TRUE]
  ELSE IF file.kind = "kmlThrows"
  THEN [old EXCEPT !.kmlData = Some(file), !.alerted = TRUE]
  ELSE [old EXCEPT !.kmlData = Some(file),
                   !.geoJson = Some([features |-> file.features])]

\* the body of reader.onload: the state it leaves, from the state `old` it finds
onloadState(file, old) ==
  IF file.kind = "empty" THEN old
  ELSE IF file.kind \in {"parseThrows", "kmlThrows"}
  THEN [old EXCEPT !.alerted = TRUE]
  ELSE [old EXCEPT !.kmlData = Some(file),
                   !.geoJson = Some([features |-> file.features])]

\* reader.onload fires for a file being read
onload ==
  \E file \in reading :
    LET old == [kmlData |-> kmlData, geoJson |-> geoJson, alerted |-> alerted]
        new == onloadState(file, old)
    IN  /\ reading' = reading \ {file}
        /\ kmlData' = new.kmlData
        /\ geoJson' = new.geoJson
        /\ alerted' = new.alerted
        /\ IF file.kind = "kml"
           THEN effect' = "pending" /\ fitted' = EmptyBounds
           ELSE UNCHANGED <<effect, fitted>>
        /\ UNCHANGED <<summary, details>>

\* showSummary without its setDetails(null)
summaryStateKeepsDetails(gj, old) ==
  IF gj.null THEN old
  ELSE [summary |-> Some(countFeatures(gj.val.features, 1, ElementCount)),
        details |-> old.details]

\* showSummary: the pair (summary, details) it leaves
summaryState(gj, old) ==
  IF gj.null THEN old
  ELSE [summary |-> Some(countFeatures(gj.val.features, 1, ElementCount)),
        details |-> Null]

showSummary ==
  LET new == summaryState(geoJson, [summary |-> summary, details |-> details])
  IN  /\ summary' = new.summary
      /\ details' = new.details
      /\ UNCHANGED <<kmlData, geoJson, reading, alerted, effect, fitted>>

\* showDetails: the pair (summary, details) it leaves
detailsState(gj, old) ==
  IF gj.null THEN old
  ELSE [summary |-> Null,
        details |-> Some(detailFeatures(gj.val.features, 1, <<>>))]

showDetails ==
  LET new == detailsState(geoJson, [summary |-> summary, details |-> details])
  IN  /\ summary' = new.summary
      /\ details' = new.details
      /\ UNCHANGED <<kmlData, geoJson, reading, alerted, effect, fitted>>

\* the effect of MapUpdater, run once for each value geoJson takes
MapUpdater ==
  /\ effect = "pending"
  /\ effect' = effectOutcome(geoJson).effect
  /\ fitted' = effectOutcome(geoJson).fitted
  /\ UNCHANGED <<kmlData, geoJson, summary, details, reading, alerted>>

Next == handleFileUpload \/ onload \/ showSummary \/ showDetails \/ MapUpdater

Spec == Init /\ [][Next]_vars

\* the builders applied to a collection that has just been loaded
InitBuilders ==
  /\ \E c \in BuilderInputs(MaxFeatures, MaxPairs) :
       /\ kmlData = Some(File("kml", c))
       /\ geoJson = Some([features |-> c])
  /\ summary = Null
  /\ details = Null
  /\ reading = {}
  /\ alerted = FALSE
  /\ effect = "pending"
  /\ fitted = EmptyBounds

NextBuilders == showSummary \/ showDetails \/ MapUpdater

SpecBuilders == InitBuilders /\ [][NextBuilders]_vars

(* ------------------- definitions used by the properties --------------- *)

Features == geoJson.val.features

\* the coordinate slots of a feature in order: its sub-arrays joined, last first
RECURSIVE Joined(_, _)
Joined(lines, k) == IF k = 0 THEN <<>> ELSE Joined(lines, k - 1) \o lines[k]
SlotsOf(f) == Joined(f.geometry.coordinates, Len(f.geometry.coordinates))

LineShaped(f) ==
  ~f.geometry.null /\ f.geometry.type \in {"LineString", "MultiLineString"}

\* a pair with two finite components
UsablePair(c) ==
  ~c.null /\ Len(c.el) >= 2 /\ IsFinite(c.el[1]) /\ IsFinite(c.el[2])

\* a slot that is not missing, has two components and no non-numeric one
NumericPair(c) ==
  ~c.null /\ Len(c.el) >= 2 /\ IsNumber(c.el[1]) /\ IsNumber(c.el[2])

\* distance(p, q), each read as [lon, lat]
Dist(p, q) == calculateDistance(p.el[2], p.el[1], q.el[2], q.el[1])

\* the sum of Dist over the consecutive slots of seq that both satisfy Ok
SegSum(seq, Ok(_)) ==
  LET f[n \in 0..Len(seq)] ==
        IF n <= 1 THEN Num(0)
        ELSE Add(f[n - 1],
                 IF Ok(seq[n - 1]) /\ Ok(seq[n]) THEN Dist(seq[n - 1], seq[n])
                 ELSE Num(0))
  IN  f[Len(seq)]

UsableCount(f) ==
  Cardinality({ j \in 1..Len(SlotsOf(f)) : UsablePair(SlotsOf(f)[j]) })

\* the line features with at least two slots, in collection order
RECURSIVE LongLines(_, _)
LongLines(features, n) ==
  IF n = 0 THEN <<>>
  ELSE LongLines(features, n - 1)
       \o (IF LineShaped(features[n]) /\ Len(SlotsOf(features[n])) >= 2
           THEN <<features[n]>> ELSE <<>>)

\* the summary's counts added up
RECURSIVE SumValues(_, _)
SumValues(count, keys) ==
  IF keys = {} THEN 0
  ELSE LET k == CHOOSE x \in keys : TRUE
       IN  count[k] + SumValues(count, keys \ {k})

FourKinds == {"Point", "LineString", "Polygon", "MultiLineString"}

\* the (lat, lon) of every usable pair of the Point, LineString and
\* MultiLineString features
UsableLatLon(features) ==
  UNION { { <<SlotsOf(features[i])[j].el[2].v, SlotsOf(features[i])[j].el[1].v>> :
              j \in { j \in 1..Len(SlotsOf(features[i])) :
                        UsablePair(SlotsOf(features[i])[j]) } } :
          i \in { i \in 1..Len(features) :
                    /\ ~features[i].geometry.null
                    /\ features[i].geometry.type \in
                         {"Point", "LineString", "MultiLineString"} } }

SetMin(S) == CHOOSE x \in S : \A y \in S : x <= y
SetMax(S) == CHOOSE x \in S : \A y \in S : x >= y

(* ------------------------------ properties ---------------------------- *)

\* C1: after showSummary the values of the summary add up to the number of
\* features whose geometry is non-null and of one of the four kinds, and no
\* other geometry type adds anything to the summary.
C1_SummaryCountsFourKinds ==
  ~summary.null =>
    /\ DOMAIN summary.val = FourKinds
    /\ SumValues(summary.val, DOMAIN summary.val) =
         Cardinality({ i \in 1..Len(Features) :
                         /\ ~Features[i].geometry.null
                         /\ Features[i].geometry.type \in FourKinds })

\* C2 as stated: showDetails emits an entry only for a line feature with at
\* least 2 usable pairs, so there are no more entries than such features.
C2_EntryOnlyForTwoUsablePairs ==
  ~details.null =>
    Len(details.val) <=
      Cardinality({ i \in 1..Len(Features) :
                      LineShaped(Features[i]) /\ UsableCount(Features[i]) >= 2 })

\* C2 amended: showDetails emits an entry only for a LineString or
\* MultiLineString whose flattened sequence has at least 2 slots, usable or
\* not: of each type there are no more entries than such features.
C2_EntryOnlyForTwoSlots ==
  ~details.null =>
    \A type \in {"LineString", "MultiLineString"} :
      Cardinality({ k \in 1..Len(details.val) : details.val[k].type = type }) <=
        Cardinality({ i \in 1..Len(Features) :
                        /\ LineShaped(Features[i])
                        /\ Features[i].geometry.type = type
                        /\ Len(SlotsOf(Features[i])) >= 2 })

\* a line of two slots of which fewer than two are usable got its entry
C2_Witness ==
  /\ ~details.null
  /\ Len(Features) = 1
  /\ LineShaped(Features[1])
  /\ Len(SlotsOf(Features[1])) = 2
  /\ UsableCount(Features[1]) < 2
  /\ Len(details.val) = 1

\* C3: only pairs with two finite components are used: every length is the
\* sum over the segments whose two ends are finite pairs, and the bounds
\* handed to fitBounds never hold a non-finite corner.
C3_OnlyFinitePairsUsed ==
  /\ ~details.null =>
       \A k \in 1..Len(details.val) :
         details.val[k].length =
           toFixed2(SegSum(SlotsOf(LongLines(Features, Len(Features))[k]), UsablePair))
  /\ effect = "fitted" =>
       /\ IsFinite(fitted.south) /\ IsFinite(fitted.north)
       /\ IsFinite(fitted.west) /\ IsFinite(fitted.east)

\* C4: every line feature with at least 2 slots gets exactly one entry, in
\* order, and its length is the sum of the distances of exactly the
\* consecutive slots that are both present, of two components and numeric.
C4_OneEntryWithSegmentSum ==
  ~details.null =>
    LET lines == LongLines(Features, Len(Features))
    IN  /\ Len(details.val) = Len(lines)
        /\ \A k \in 1..Len(lines) :
             /\ details.val[k].type = lines[k].geometry.type
             /\ details.val[k].length =
                  toFixed2(SegSum(SlotsOf(lines[k]), NumericPair))

\* the first segment of a line is skipped and the second one is counted
C4_Witness ==
  /\ ~details.null
  /\ Len(Features) = 1
  /\ Features[1].geometry.type = "LineString"
  /\ Len(SlotsOf(Features[1])) = 3
  /\ ~NumericPair(SlotsOf(Features[1])[1])
  /\ UsablePair(SlotsOf(Features[1])[2])
  /\ UsablePair(SlotsOf(Features[1])[3])
  /\ Len(details.val) = 1
  /\ details.val[1].length.t = "num"
  /\ details.val[1].length.v > 0

\* the distance between two slots when both are numeric pairs, else 0
Link(p, q) == IF NumericPair(p) /\ NumericPair(q) THEN Dist(p, q) ELSE Num(0)

\* the sum of the sub-lines' own lengths and of the connecting segments
RECURSIVE SubLineSum(_, _)
SubLineSum(lines, k) ==
  IF k = 0 THEN Num(0)
  ELSE Add(Add(SubLineSum(lines, k - 1), SegSum(lines[k], NumericPair)),
           IF k > 1 THEN Link(lines[k - 1][Len(lines[k - 1])], lines[k][1])
           ELSE Num(0))

\* C5: the length of a MultiLineString is the sum of its sub-lines' own
\* lengths plus the distance from the end of each sub-line to the start of
\* the next.
C5_MultiLineJoinsSubLines ==
  ~details.null =>
    LET lines == LongLines(Features, Len(Features))
    IN  \A k \in 1..Min(Len(lines), Len(details.val)) :
          ( /\ lines[k].geometry.type = "MultiLineString"
            /\ \A j \in 1..Len(lines[k].geometry.coordinates) :
                 lines[k].geometry.coordinates[j] # <<>> )
          => details.val[k].length =
               toFixed2(SubLineSum(lines[k].geometry.coordinates,
                                   Len(lines[k].geometry.coordinates)))

\* a MultiLineString of two sub-lines whose connecting segment has a length
C5_Witness ==
  /\ ~details.null
  /\ Len(Features) = 1
  /\ Features[1].geometry.type = "MultiLineString"
  /\ Len(Features[1].geometry.coordinates) = 2
  /\ Len(Features[1].geometry.coordinates[1]) = 2
  /\ Len(Features[1].geometry.coordinates[2]) = 1
  /\ \A j \in 1..3 : UsablePair(SlotsOf(Features[1])[j])
  /\ SlotsOf(Features[1])[2] # SlotsOf(Features[1])[3]
  /\ Len(details.val) = 1
  /\ details.val[1].length.v > 0

\* C6: the effect never calls fitBounds for a collection without a pair of
\* two finite components.
C6_NoFitWithoutFinitePair ==
  (~geoJson.null /\ effect # "pending" /\ UsableLatLon(Features) = {})
    => effect # "fitted"

\* C7: the bounds handed to fitBounds are the minimum and maximum latitude
\* and longitude of the usable pairs of the Point, LineString and
\* MultiLineString features.
C7_BoundsAreExtremaOfUsablePairs ==
  (effect = "fitted" /\ UsableLatLon(Features) # {}) =>
    LET lats == { p[1] : p \in UsableLatLon(Features) }
        lons == { p[2] : p \in UsableLatLon(Features) }
    IN  /\ fitted.south = Num(SetMin(lats))
        /\ fitted.north = Num(SetMax(lats))
        /\ fitted.west = Num(SetMin(lons))
        /\ fitted.east = Num(SetMax(lons))

\* C8: no exception escapes a builder; of the three only the effect of
\* MapUpdater has statements that can throw.
C8_NoExceptionEscapes == effect # "threw"

\* C9: a failed upload leaves kmlData and geoJson as they were, the two are
\* set together, and while geoJson is null no step changes summary or details.
C9_FailedUploadKeepsState ==
  [][ /\ \A f \in reading \ reading' :
           f.kind \in {"parseThrows", "kmlThrows"} =>
             (kmlData' = kmlData /\ geoJson' = geoJson)
      /\ kmlData'.null <=> geoJson'.null
      /\ ~geoJson'.null => geoJson'.val.features = kmlData'.val.features
      /\ geoJson.null => (summary' = summary /\ details' = details) ]_vars

\* an upload has failed, another has succeeded, and a summary is on display
C9_Witness == alerted /\ ~geoJson.null /\ ~kmlData.null /\ ~summary.null

\* C10: at most one of summary and details is non-null.
C10_AtMostOneView == summary.null \/ details.null

\* a summary is on display
C10_Witness == ~summary.null /\ details.null /\ ~geoJson.null

====
